---- MODULE Spec2Model ----
(***************************************************************************)
(* A model of src/src/ParamBinders/ParamBinder.ts: the ParamBinder class   *)
(* (one url parameter's default, validity, consistency and accessors) and  *)
(* the ModelBinder class (registry, getModelFromUrlParams = decode,        *)
(* getUrlParamsFromModel = encode).  An async function is a set of tasks;  *)
(* each await is a point where the tasks of a Promise.all interleave.      *)
(***************************************************************************)
EXTENDS Naturals, Sequences, FiniteSets, TLC

\* ------------------------------------------------------------------ bounds
\* longest URLSearchParams (list of name/value pairs) a caller passes in
MaxLen == 2
\* longest URLSearchParams a caller passes to encode as the starting set
MaxStart == 1
\* longest URLSearchParams a caller passes when its functions throw, or when it
\* has two calls in flight
MaxShort == 1

\* ------------------------------------------------------------- value space
Names == {"a", "b"}                 \* url parameter names binders are made for
Keys == Names \cup {"z"}            \* "z" never has a binder
Values == {"0", "1"}                \* url parameter values (strings)
Undefined == "undefined"            \* JS undefined / null
NoKey == "-"
Calls == {"c1", "c2"}               \* calls in flight
Solo == {"c1"}                      \* the call of a caller that makes one call at a time
PIds == {"p1", "p2"}                      \* URLSearchParams objects the caller owns
MIds == {"m1"}                      \* model objects the caller owns
NoRef == "none"

Num(v) == IF v = "0" THEN 0 ELSE IF v = "1" THEN 1 ELSE 2

RECURSIVE SeqsUpTo(_, _)
SeqsUpTo(S, n) ==
    IF n = 0 THEN {<<>>}
    ELSE LET shorter == SeqsUpTo(S, n - 1)
         IN  shorter \cup {Append(s, x) : s \in {t \in shorter : Len(t) = n - 1}, x \in S}

Pairs == {<<k, v>> : k \in Names, v \in Values} \cup {<<"z", "0">>}
ParamSets == SeqsUpTo(Pairs, MaxLen)
StartSets == SeqsUpTo(Pairs, MaxStart)
ShortSets == SeqsUpTo(Pairs, MaxShort)
\* a model field holds a string, nothing, or (field a) the number 1
One == "#1"
Models ==
    [Names -> Values \cup {Undefined}]
    \cup {[a |-> One, b |-> Undefined], [a |-> One, b |-> "0"]}

\* ------------------------------------------------- URLSearchParams (a list)
Range(s) == {s[i] : i \in 1..Len(s)}
KeysOf(p) == [i \in 1..Len(p) |-> p[i][1]]
Has(p, k) == \E i \in 1..Len(p) : p[i][1] = k
FirstIndex(p, k) == CHOOSE i \in 1..Len(p) : p[i][1] = k /\ \A j \in 1..(i - 1) : p[j][1] # k
Get(p, k) == IF Has(p, k) THEN p[FirstIndex(p, k)][2] ELSE Undefined

RECURSIVE Without(_, _)
Without(p, k) ==
    IF p = <<>> THEN <<>>
    ELSE IF Head(p)[1] = k THEN Without(Tail(p), k)
         ELSE <<Head(p)>> \o Without(Tail(p), k)

Delete(p, k) == Without(p, k)

Set(p, k, v) ==
    IF Has(p, k)
    THEN LET i == FirstIndex(p, k)
         IN  SubSeq(p, 1, i - 1) \o <<    <<k, v>>    >> \o Without(SubSeq(p, i + 1, Len(p)), k)
    ELSE Append(p, <<k, v>>)

\* --------------------------------------------------------------- ParamBinder
\* The caller's functions, as data.  defaultParamValue: a string, or a function
\* of allParams (allParams?.get(key) ?? val).  isUrlParamValueValid: the value
\* is one of ok and, when needs names a key, allParams has that key.
\* isModelConsistent: absent, or model.a < model.b.  The accessors read and
\* write the model's field urlParamName.
Binder(n, isFn, key, val, ok, needs, cons) ==
    [urlParamName |-> n,
     defaultParamValue |-> [fn |-> isFn, key |-> key, val |-> val],
     isUrlParamValueValidFunc |-> [ok |-> ok, needs |-> needs],
     isModelConsistentFunc |-> cons,
     throws |-> "none"]

BinderPool ==
    { Binder("a", FALSE, NoKey, "0", Values, NoKey, "undefined"),
      Binder("a", FALSE, NoKey, "0", {"1"}, NoKey, "undefined"),
      Binder("a", TRUE, "z", "0", Values, NoKey, "lt"),
      Binder("b", FALSE, NoKey, "1", Values, NoKey, "undefined"),
      Binder("b", FALSE, NoKey, "1", {"1"}, NoKey, "undefined"),
      Binder("b", TRUE, "a", "0", Values, NoKey, "undefined"),
      Binder("b", FALSE, NoKey, "1", Values, "z", "undefined") }

\* allParams is <<>> (not passed) or <<p>>
getDefaultParamValue(pb, allParams) ==
    IF pb.defaultParamValue.fn
    THEN IF allParams # <<>> /\ Has(allParams[1], pb.defaultParamValue.key)
         THEN Get(allParams[1], pb.defaultParamValue.key)
         ELSE pb.defaultParamValue.val
    ELSE pb.defaultParamValue.val

isUrlParamValid(pb, str, allParams) ==
    /\ str \in pb.isUrlParamValueValidFunc.ok
    /\ \/ pb.isUrlParamValueValidFunc.needs = NoKey
       \/ allParams # <<>> /\ Has(allParams[1], pb.isUrlParamValueValidFunc.needs)

isModelConsistentNoDefault(pb, model) ==
    /\ pb.isModelConsistentFunc = "lt"
    /\ model["a"] # Undefined
    /\ model["b"] # Undefined
    /\ Num(model["a"]) < Num(model["b"])
isModelConsistent(pb, model) ==
    IF pb.isModelConsistentFunc = "lt"
    THEN /\ model["a"] # Undefined
         /\ model["b"] # Undefined
         /\ Num(model["a"]) < Num(model["b"])
    ELSE TRUE

getUrlParamValueFunc(pb, model) == model[pb.urlParamName]
\* valToReturn.toString()
toString(v) == IF v = One THEN "1" ELSE v
getUrlParamValueAsRead(pb, model) == toString(getUrlParamValueFunc(pb, model))
getUrlParamValue(pb, model) ==
    LET valToReturn == getUrlParamValueFunc(pb, model)
    IN  IF valToReturn = Undefined THEN getDefaultParamValue(pb, <<>>) ELSE toString(valToReturn)

setToModel(pb, model, urlParamValue) == [model EXCEPT ![pb.urlParamName] = urlParamValue]

\* new ParamBinder(params).  A constructor parameter is a JS value: t is its
\* typeof and v what it holds (for a function, what the function does).
Arg(t, v) == [t |-> t, v |-> v]
Thrown(msg) == [error |-> msg]
ParamBinder(params) ==
    IF params.urlParamName.v = "" \/ params.urlParamName.t # "string"
    THEN Thrown("urlParamName must be non empty string")
    ELSE IF params.defaultParamValue.t # "string" /\ params.defaultParamValue.t # "function"
    THEN Thrown("defaultValue must be string or function")
    ELSE IF params.setValueToModel.t # "function"
    THEN Thrown("setValueToModel must be function")
    ELSE IF params.isUrlParamValueValid.t # "function"
    THEN Thrown("isUrlParamValueValid must be function")
    ELSE IF params.getUrlParamValue.t # "function"
    THEN Thrown("getUrlParamValue must be function")
    ELSE [instance |->
            [urlParamName |-> params.urlParamName.v,
             defaultParamValue |-> [fn |-> params.defaultParamValue.t = "function",
                                    key |-> params.defaultParamValue.v.key,
                                    val |-> params.defaultParamValue.v.val],
             isUrlParamValueValidFunc |-> params.isUrlParamValueValid.v,
             isModelConsistentFunc |-> IF params.isModelConsistent.t = "function"
                                       THEN params.isModelConsistent.v
                                       ELSE "undefined",
             throws |-> "none"]]

\* the constructor parameters a caller passes
CtorParams ==
    [urlParamName : {Arg("string", "a"), Arg("string", ""), Arg("number", "5"),
                     Arg("undefined", Undefined)},
     defaultParamValue : {Arg("string", [key |-> NoKey, val |-> "0"]),
                          Arg("function", [key |-> "b", val |-> "0"]),
                          Arg("undefined", [key |-> NoKey, val |-> Undefined])},
     setValueToModel : {Arg("function", "field"), Arg("undefined", Undefined)},
     isModelConsistent : {Arg("function", "lt"), Arg("undefined", Undefined), Arg("string", "lt")},
     isUrlParamValueValid : {Arg("function", [ok |-> Values, needs |-> NoKey]),
                             Arg("undefined", [ok |-> {}, needs |-> NoKey])},
     getUrlParamValue : {Arg("function", "field"), Arg("string", "field")}]

\* ----------------------------------------------------------------- state
VARIABLES
    paramBinders,   \* ModelBinder.#paramBinders: the registry, in registration order
    psets,          \* the caller's URLSearchParams objects, by identity
    models,         \* the caller's model objects, by identity
    call,           \* per call: the locals of the async function and its tasks
    rt,             \* the caller's script, when it runs decode, encode, decode in a row
    made,           \* new ParamBinder(params): the argument and what it gave
    added           \* the latest addParamBinder(x): the argument and what it gave

vars == <<paramBinders, psets, models, call, rt, made, added>>

EmptyModel == [n \in Names |-> Undefined]     \* {} as TModel
NoResult == [pending |-> TRUE]
Own == "own"                                  \* an object only the call holds

IdleCall ==
    [op |-> "idle", pc |-> "idle",
     urlParams |-> NoRef,        \* the caller object urlParams refers to
     fresh |-> <<>>,             \* encode's own new URLSearchParams()
     modelRef |-> NoRef,         \* the caller object passed as model
     modelAt |-> Own,            \* decode's model: the call's own object, or a caller's
     model |-> EmptyModel,       \* decode's own model object
     newParamsAt |-> Own,        \* decode's newParams: the call's own object, or a caller's
     newParams |-> <<>>,         \* decode's own URLSearchParams
     hasErrors |-> FALSE,
     urlParamsKeys |-> <<>>,
     tasks |-> <<>>,             \* the promises of the current Promise.all
     result |-> NoResult,
     threw |-> {},               \* which of the caller's functions threw during the call
     inParams |-> <<>>,          \* what the caller passed, as it was at the call
     inModel |-> <<>>]

Task(pbi, key, pc, v) == [pb |-> pbi, key |-> key, pc |-> pc, v |-> v, d |-> Undefined, ok |-> TRUE]

\* await Promise.all(tasks) goes on when every promise has fulfilled
NoneAwaited(c) == TRUE
NeverSettled(c) == FALSE
AllDone(c) == \A i \in 1..Len(call[c].tasks) : call[c].tasks[i].pc = "done"
\* this.#paramBinders.find((pb) => pb.urlParamName === key), as an index
BinderIndexFirst(key) == IF Len(paramBinders) > 0 THEN 1 ELSE 0
BinderIndex(key) ==
    IF \E i \in 1..Len(paramBinders) : paramBinders[i].urlParamName = key
    THEN CHOOSE i \in 1..Len(paramBinders) : paramBinders[i].urlParamName = key
    ELSE 0
paramBindersKeys == [i \in 1..Len(paramBinders) |-> paramBinders[i].urlParamName]

NotMade == [none |-> TRUE]
NotAdded == [none |-> TRUE]

Init ==
    /\ paramBinders = <<>>
    /\ psets = [p \in PIds |-> <<>>]
    /\ models = [m \in MIds |-> EmptyModel]
    /\ call = [c \in Calls |-> IdleCall]
    /\ rt = [stage |-> "off", first |-> EmptyModel]
    /\ made = NotMade
    /\ added = NotAdded

\* ------------------------------------------------------- ModelBinder registry
\* the argument of addParamBinder: a ParamBinder instance, or an object that
\* only looks like one
Instance(pb) == [instanceOf |-> "ParamBinder", binder |-> pb]
LookAlike(pb) == [instanceOf |-> "Object", binder |-> pb]

\* this.#paramBinders.some((pb) => pb.urlParamName === urlParamName)
NameTakenNever(urlParamName) == FALSE
NameTaken(urlParamName) ==
    \E i \in 1..Len(paramBinders) : paramBinders[i].urlParamName = urlParamName

addParamBinder(x) ==
    /\ \A c \in Calls : call[c].op = "idle"
    /\ rt.stage = "off"
    /\ IF x.instanceOf # "ParamBinder"
       THEN /\ added' = [arg |-> x, error |-> "paramBinder must be instance of BaseParamBinder"]
            /\ UNCHANGED paramBinders
       ELSE IF NameTaken(x.binder.urlParamName)
       THEN /\ added' = [arg |-> x, error |-> "paramBinder with urlParamName already exists"]
            /\ UNCHANGED paramBinders
       ELSE /\ paramBinders' = Append(paramBinders, x.binder)
            /\ added' = [arg |-> x, returned |-> "this"]
    /\ UNCHANGED <<psets, models, call, rt, made>>

\* setup as the calls of decode and encode find it: binders of distinct names
Register(pb) == ~ NameTaken(pb.urlParamName) /\ addParamBinder(Instance(pb))

\* ------------------------------------------------- getModelFromUrlParams
\* model = structuredClone(model), or {}: an object of the call's own
KeepModel(mref) == IF mref = NoRef THEN Own ELSE mref
CloneModel(mref) == Own

\* newParams = new URLSearchParams(urlParams): an object of the call's own
KeepParams(pref) == pref
CopyParams(pref) == Own

CurModel(c) == IF call[c].modelAt = Own THEN call[c].model ELSE models[call[c].modelAt]
CurNewParams(c) == IF call[c].newParamsAt = Own THEN call[c].newParams ELSE psets[call[c].newParamsAt]

\* The tasks of the first Promise.all: one per binder whose name is not a key
\* of urlParams.
AbsentTasksNone(keys) == <<>>
AbsentTasks(keys) ==
    LET idx == SelectSeq([i \in 1..Len(paramBinders) |-> i],
                         LAMBDA i : ~ \E j \in 1..Len(keys) : keys[j] = paramBinders[i].urlParamName)
    IN  [j \in 1..Len(idx) |-> Task(idx[j], paramBinders[idx[j]].urlParamName, "default", Undefined)]

\* The tasks of the second Promise.all: one per entry of urlParamsKeys; a key
\* with no binder returns at once, the others call isUrlParamValid on
\* urlParams.get(key).
PresentTasks(keys, p) ==
    [j \in 1..Len(keys) |->
        IF BinderIndex(keys[j]) = 0
        THEN Task(0, keys[j], "done", Undefined)
        ELSE Task(BinderIndex(keys[j]), keys[j], "validate", Get(p, keys[j]))]

\* decode(urlParams, model?): the synchronous start of the call, up to the
\* first await.  The caller passes its object pref holding p and, unless
\* mref = NoRef, its object mref holding m.
DecodeStart(c, pref, p, mref, m) ==
    /\ psets' = [psets EXCEPT ![pref] = p]
    /\ models' = IF mref = NoRef THEN models ELSE [models EXCEPT ![mref] = m]
    /\ call' = [call EXCEPT ![c] =
            [IdleCall EXCEPT
                !.op = "decode", !.pc = "absent",
                !.urlParams = pref,
                !.modelRef = mref,
                !.modelAt = CloneModel(mref),
                !.model = IF mref = NoRef THEN EmptyModel ELSE m,
                !.newParamsAt = CopyParams(pref),
                !.newParams = p,
                !.hasErrors = FALSE,
                !.urlParamsKeys = KeysOf(p),
                !.tasks = AbsentTasks(KeysOf(p)),
                !.inParams = <<p>>,
                !.inModel = IF mref = NoRef THEN <<>> ELSE <<m>>]]
    /\ UNCHANGED <<paramBinders, made, added>>

\* decode(x) with x no URLSearchParams: throws
DecodeCallNoParams(c) ==
    /\ call[c].op = "idle"
    /\ rt.stage = "off"
    /\ call' = [call EXCEPT ![c] =
            [IdleCall EXCEPT !.op = "decode", !.pc = "thrown",
                             !.result = Thrown("urlParams must be instance of URLSearchParams")]]
    /\ UNCHANGED <<paramBinders, psets, models, rt, made, added>>

DecodeCall(c, pref, p, mref, m) ==
    /\ call[c].op = "idle"
    /\ rt.stage = "off"
    /\ DecodeStart(c, pref, p, mref, m)
    /\ UNCHANGED rt

\* the caller's function f of binder pb throws (or returns a promise that rejects)
Throwing(pb, f) == [pb EXCEPT !.throws = f]
Throws(pb, f) == pb.throws = f

\* the promise of task i rejects with what the caller's function threw
Threw(cl, i, f) == cl.threw \cup {<<cl.tasks[i].key, f>>}
Reject(c, i, f) ==
    /\ call' = [call EXCEPT ![c].tasks[i].pc = "rejected", ![c].threw = Threw(call[c], i, f)]
    /\ UNCHANGED <<paramBinders, psets, models, rt, made, added>>

\* a step of the call that leaves cl as the call's locals and writes m2 to its model
WriteModel(c, cl, m2) ==
    /\ call' = [call EXCEPT ![c] = IF cl.modelAt = Own THEN [cl EXCEPT !.model = m2] ELSE cl]
    /\ models' = IF cl.modelAt = Own THEN models ELSE [models EXCEPT ![cl.modelAt] = m2]
    /\ UNCHANGED <<paramBinders, psets, rt, made, added>>

\* a step of the call that leaves cl as the call's locals and writes np to newParams
WriteNewParams(c, cl, np) ==
    /\ call' = [call EXCEPT ![c] = IF cl.newParamsAt = Own THEN [cl EXCEPT !.newParams = np] ELSE cl]
    /\ psets' = IF cl.newParamsAt = Own THEN psets ELSE [psets EXCEPT ![cl.newParamsAt] = np]
    /\ UNCHANGED <<paramBinders, models, rt, made, added>>

\* await paramBinder.getDefaultParamValue(urlParams) settles
AbsentDefault(c) == \E i \in 1..Len(call[c].tasks) :
    /\ call[c].op = "decode" /\ call[c].pc = "absent"
    /\ call[c].tasks[i].pc = "default"
    /\ IF Throws(paramBinders[call[c].tasks[i].pb], "default")
       THEN Reject(c, i, "default")
       ELSE /\ call' = [call EXCEPT ![c].tasks[i].pc = "set",
                                    ![c].tasks[i].d =
                                        getDefaultParamValue(paramBinders[call[c].tasks[i].pb],
                                                             <<psets[call[c].urlParams]>>)]
            /\ UNCHANGED <<paramBinders, psets, models, rt, made, added>>

\* await paramBinder.setToModel(model, defaultParamValue)
AbsentSet(c) == \E i \in 1..Len(call[c].tasks) :
    /\ call[c].op = "decode" /\ call[c].pc = "absent"
    /\ call[c].tasks[i].pc = "set"
    /\ IF Throws(paramBinders[call[c].tasks[i].pb], "write")
       THEN Reject(c, i, "write")
       ELSE WriteModel(c, [call[c] EXCEPT !.tasks[i].pc = "done"],
                       setToModel(paramBinders[call[c].tasks[i].pb], CurModel(c), call[c].tasks[i].d))

\* the first Promise.all settles; the second one's tasks start
DecodeStartPresent(c) ==
    /\ call[c].op = "decode" /\ call[c].pc = "absent"
    /\ AllDone(c)
    /\ call' = [call EXCEPT ![c].pc = "present",
                            ![c].tasks = PresentTasks(call[c].urlParamsKeys,
                                                      psets[call[c].urlParams])]
    /\ UNCHANGED <<paramBinders, psets, models, rt, made, added>>

\* newParams.delete(key) for an invalid key
OnInvalidKeep(np, key) == np
OnInvalid(np, key) == Delete(np, key)

\* await paramBinder.isUrlParamValid(urlParams.get(key), urlParams) settles:
\* an invalid value sets hasErrors and deletes the key from newParams; a valid
\* one goes on to parseUrlParamValue(urlParams.get(key), urlParams)
PresentValidate(c) == \E i \in 1..Len(call[c].tasks) :
    /\ call[c].op = "decode" /\ call[c].pc = "present"
    /\ call[c].tasks[i].pc = "validate"
    /\ LET t == call[c].tasks[i]
           p == psets[call[c].urlParams]
       IN  IF Throws(paramBinders[t.pb], "valid")
           THEN Reject(c, i, "valid")
           ELSE IF ~ isUrlParamValid(paramBinders[t.pb], t.v, <<p>>)
           THEN WriteNewParams(c, [call[c] EXCEPT !.hasErrors = TRUE, !.tasks[i].pc = "done"],
                               OnInvalid(CurNewParams(c), t.key))
           ELSE /\ call' = [call EXCEPT ![c].tasks[i].pc = "parse",
                                        ![c].tasks[i].v = Get(p, t.key)]
                /\ UNCHANGED <<paramBinders, psets, models, rt, made, added>>

\* parseUrlParamValue: its own await of isUrlParamValid settles; a valid value
\* is returned and set on the model (setToModel is not awaited, its body runs
\* in the same step, and the promise it returns is dropped: when the write
\* accessor throws, that promise rejects and nothing awaits it)
PresentParse(c) == \E i \in 1..Len(call[c].tasks) :
    /\ call[c].op = "decode" /\ call[c].pc = "present"
    /\ call[c].tasks[i].pc = "parse"
    /\ LET t == call[c].tasks[i]
           p == psets[call[c].urlParams]
       IN  IF Throws(paramBinders[t.pb], "valid")
           THEN Reject(c, i, "valid")
           ELSE IF isUrlParamValid(paramBinders[t.pb], t.v, <<p>>)
           THEN IF Throws(paramBinders[t.pb], "write")
                THEN /\ call' = [call EXCEPT ![c].tasks[i].pc = "done",
                                             ![c].threw = Threw(call[c], i, "write")]
                     /\ UNCHANGED <<paramBinders, psets, models, rt, made, added>>
                ELSE WriteModel(c, [call[c] EXCEPT !.tasks[i].pc = "done"],
                                setToModel(paramBinders[t.pb], CurModel(c), t.v))
           ELSE /\ call' = [call EXCEPT ![c].tasks[i].pc = "parsedefault"]
                /\ UNCHANGED <<paramBinders, psets, models, rt, made, added>>

\* parseUrlParamValue on a value that stopped being valid: await
\* getDefaultParamValue(allParams) settles, the default is set on the model
PresentParseDefault(c) == \E i \in 1..Len(call[c].tasks) :
    /\ call[c].op = "decode" /\ call[c].pc = "present"
    /\ call[c].tasks[i].pc = "parsedefault"
    /\ LET t == call[c].tasks[i]
           p == psets[call[c].urlParams]
       IN  IF Throws(paramBinders[t.pb], "default")
           THEN Reject(c, i, "default")
           ELSE IF Throws(paramBinders[t.pb], "write")
           THEN /\ call' = [call EXCEPT ![c].tasks[i].pc = "done",
                                        ![c].threw = Threw(call[c], i, "write")]
                /\ UNCHANGED <<paramBinders, psets, models, rt, made, added>>
           ELSE WriteModel(c, [call[c] EXCEPT !.tasks[i].pc = "done"],
                           setToModel(paramBinders[t.pb], CurModel(c),
                                      getDefaultParamValue(paramBinders[t.pb], <<p>>)))

\* the three return statements of getModelFromUrlParams
ResultInvalidBoth(m, np) == [model |-> m, newParams |-> np]
ResultInvalid(m, np) == [newParams |-> np]
ResultInconsistent(m, np) == [newParams |-> np]
ResultModel(m, np) == [model |-> m]

ConsistencyTasks == [i \in 1..Len(paramBinders) |-> Task(i, paramBinders[i].urlParamName, "check", Undefined)]

\* the second Promise.all settles: return { newParams } on hasErrors, else
\* start every binder's isModelConsistent(model)
DecodeAfterPresent(c) ==
    /\ call[c].op = "decode" /\ call[c].pc = "present"
    /\ AllDone(c)
    /\ IF call[c].hasErrors
       THEN call' = [call EXCEPT ![c].pc = "returned", ![c].tasks = <<>>,
                                 ![c].result = ResultInvalid(CurModel(c), CurNewParams(c))]
       ELSE call' = [call EXCEPT ![c].pc = "consistency", ![c].tasks = ConsistencyTasks]
    /\ UNCHANGED <<paramBinders, psets, models, rt, made, added>>

\* one pb.isModelConsistent(model) settles
ConsistencyCheck(c) == \E i \in 1..Len(call[c].tasks) :
    /\ call[c].op = "decode" /\ call[c].pc = "consistency"
    /\ call[c].tasks[i].pc = "check"
    /\ IF Throws(paramBinders[call[c].tasks[i].pb], "cons")
       THEN Reject(c, i, "cons")
       ELSE /\ call' = [call EXCEPT ![c].tasks[i].pc = "done",
                                    ![c].tasks[i].ok =
                                        isModelConsistent(paramBinders[call[c].tasks[i].pb], CurModel(c))]
            /\ UNCHANGED <<paramBinders, psets, models, rt, made, added>>

ResetTasks == [i \in 1..Len(paramBinders) |-> Task(i, paramBinders[i].urlParamName, "default", Undefined)]

\* consistencyCheckResults is known: some false starts the reset, else
\* return { model }
DecodeAfterConsistency(c) ==
    /\ call[c].op = "decode" /\ call[c].pc = "consistency"
    /\ AllDone(c)
    /\ IF \E i \in 1..Len(call[c].tasks) : call[c].tasks[i].ok = FALSE
       THEN call' = [call EXCEPT ![c].pc = "reset", ![c].tasks = ResetTasks]
       ELSE call' = [call EXCEPT ![c].pc = "returned", ![c].tasks = <<>>,
                                 ![c].result = ResultModel(CurModel(c), CurNewParams(c))]
    /\ UNCHANGED <<paramBinders, psets, models, rt, made, added>>

\* the parameter set the reset's defaults are computed against: urlParams
ResetContextNewParams(c) == CurNewParams(c)
ResetContext(c) == psets[call[c].urlParams]

\* await pb.getDefaultParamValue(urlParams) settles (reset)
ResetDefault(c) == \E i \in 1..Len(call[c].tasks) :
    /\ call[c].op = "decode" /\ call[c].pc = "reset"
    /\ call[c].tasks[i].pc = "default"
    /\ IF Throws(paramBinders[call[c].tasks[i].pb], "default")
       THEN Reject(c, i, "default")
       ELSE /\ call' = [call EXCEPT ![c].tasks[i].pc = "set",
                                    ![c].tasks[i].d =
                                        getDefaultParamValue(paramBinders[call[c].tasks[i].pb],
                                                             <<ResetContext(c)>>)]
            /\ UNCHANGED <<paramBinders, psets, models, rt, made, added>>

\* newParams.set(pb.urlParamName, defaultParamValue)
ResetSet(c) == \E i \in 1..Len(call[c].tasks) :
    /\ call[c].op = "decode" /\ call[c].pc = "reset"
    /\ call[c].tasks[i].pc = "set"
    /\ WriteNewParams(c, [call[c] EXCEPT !.tasks[i].pc = "done"],
                      Set(CurNewParams(c), call[c].tasks[i].key, call[c].tasks[i].d))

\* the reset's Promise.all settles: return { newParams }
DecodeAfterReset(c) ==
    /\ call[c].op = "decode" /\ call[c].pc = "reset"
    /\ AllDone(c)
    /\ call' = [call EXCEPT ![c].pc = "returned", ![c].tasks = <<>>,
                            ![c].result = ResultInconsistent(CurModel(c), CurNewParams(c))]
    /\ UNCHANGED <<paramBinders, psets, models, rt, made, added>>

\* a promise of the current Promise.all has rejected: the await throws and
\* decode's promise rejects with the same error.  The tasks still pending write
\* only to the call's own model and newParams, which nothing holds any more.
DecodeRejected(c) ==
    /\ call[c].op = "decode"
    /\ call[c].pc \in {"absent", "present", "consistency", "reset"}
    /\ \E i \in 1..Len(call[c].tasks) : call[c].tasks[i].pc = "rejected"
    /\ call' = [call EXCEPT ![c].pc = "thrown", ![c].tasks = <<>>,
                            ![c].result = Thrown("thrown by the caller's function")]
    /\ UNCHANGED <<paramBinders, psets, models, rt, made, added>>

\* ------------------------------------------------- getUrlParamsFromModel
\* the URLSearchParams that encode's urlParams refers to: the caller's object
\* when one was passed, else the call's own new URLSearchParams()
CurParams(c) == IF call[c].urlParams = NoRef THEN call[c].fresh ELSE psets[call[c].urlParams]

EncodeTasks == [i \in 1..Len(paramBinders) |-> Task(i, paramBinders[i].urlParamName, "read", Undefined)]

\* encode(model, searchParams?) with a model object: the caller passes its
\* object mref holding m and, unless pref = NoRef, its object pref holding p
EncodeStart(c, mref, m, pref, p) ==
    /\ models' = [models EXCEPT ![mref] = m]
    /\ psets' = IF pref = NoRef THEN psets ELSE [psets EXCEPT ![pref] = p]
    /\ call' = [call EXCEPT ![c] =
            [IdleCall EXCEPT
                !.op = "encode", !.pc = "encode",
                !.modelRef = mref,
                !.urlParams = pref,
                !.fresh = <<>>,
                !.tasks = EncodeTasks,
                !.inParams = IF pref = NoRef THEN <<>> ELSE <<p>>,
                !.inModel = <<m>>]]
    /\ UNCHANGED <<paramBinders, made, added>>

EncodeCall(c, mref, m, pref, p) ==
    /\ call[c].op = "idle"
    /\ rt.stage = "off"
    /\ EncodeStart(c, mref, m, pref, p)
    /\ UNCHANGED rt

\* encode(null): throws 'model must be a non-null object'
EncodeCallNoModel(c) ==
    /\ call[c].op = "idle"
    /\ rt.stage = "off"
    /\ call' = [call EXCEPT ![c] =
            [IdleCall EXCEPT !.op = "encode", !.pc = "thrown",
                             !.result = Thrown("model must be a non-null object")]]
    /\ UNCHANGED <<paramBinders, psets, models, rt, made, added>>

\* the per-binder tasks of encode run until each has settled, also after
\* Promise.all has rejected and encode has thrown
EncodeRunning == {"encode", "thrown"}

\* await pb.getUrlParamValue(model) settles
EncodeRead(c) == \E i \in 1..Len(call[c].tasks) :
    /\ call[c].op = "encode" /\ call[c].pc \in EncodeRunning
    /\ call[c].tasks[i].pc = "read"
    /\ LET pb == paramBinders[call[c].tasks[i].pb]
           model == models[call[c].modelRef]
       IN  IF \/ Throws(pb, "read")
              \/ getUrlParamValueFunc(pb, model) = Undefined /\ Throws(pb, "default")
           THEN Reject(c, i, IF Throws(pb, "read") THEN "read" ELSE "default")
           ELSE /\ call' = [call EXCEPT ![c].tasks[i].pc = "default",
                                        ![c].tasks[i].v = getUrlParamValue(pb, model)]
                /\ UNCHANGED <<paramBinders, psets, models, rt, made, added>>

\* the parameter set encode's defaults are computed against: urlParams, the
\* set that the binders' tasks are writing to
EncodeContextAtCall(c) == IF call[c].inParams = <<>> THEN <<>> ELSE call[c].inParams[1]
EncodeContext(c) == CurParams(c)

\* await pb.getDefaultParamValue(urlParams) settles
EncodeDefault(c) == \E i \in 1..Len(call[c].tasks) :
    /\ call[c].op = "encode" /\ call[c].pc \in EncodeRunning
    /\ call[c].tasks[i].pc = "default"
    /\ IF Throws(paramBinders[call[c].tasks[i].pb], "default")
       THEN Reject(c, i, "default")
       ELSE /\ call' = [call EXCEPT ![c].tasks[i].pc = "set",
                                    ![c].tasks[i].d =
                                        getDefaultParamValue(paramBinders[call[c].tasks[i].pb],
                                                             <<EncodeContext(c)>>)]
            /\ UNCHANGED <<paramBinders, psets, models, rt, made, added>>

\* if (urlParamValue !== defaultParamValue) urlParams.set(name, urlParamValue)
EmitAlways(p, key, v, d) == Set(p, key, v)
Emit(p, key, v, d) == IF v # d THEN Set(p, key, v) ELSE p

EncodeSet(c) == \E i \in 1..Len(call[c].tasks) :
    /\ call[c].op = "encode" /\ call[c].pc \in EncodeRunning
    /\ call[c].tasks[i].pc = "set"
    /\ LET t == call[c].tasks[i]
           out == Emit(CurParams(c), t.key, t.v, t.d)
       IN  IF call[c].urlParams = NoRef
           THEN /\ call' = [call EXCEPT ![c].tasks[i].pc = "done", ![c].fresh = out]
                /\ psets' = psets
           ELSE /\ call' = [call EXCEPT ![c].tasks[i].pc = "done"]
                /\ psets' = [psets EXCEPT ![call[c].urlParams] = out]
    /\ UNCHANGED <<paramBinders, models, rt, made, added>>

\* the Promise.all settles: return urlParams (the tasks keep what each binder
\* read and computed)
EncodeReturn(c) ==
    /\ call[c].op = "encode" /\ call[c].pc = "encode"
    /\ AllDone(c)
    /\ call' = [call EXCEPT ![c].pc = "returned",
                            ![c].result = [urlParams |-> CurParams(c)]]
    /\ UNCHANGED <<paramBinders, psets, models, rt, made, added>>

\* a promise of encode's Promise.all has rejected: the await throws and
\* encode's promise rejects with the same error
EncodeRejected(c) ==
    /\ call[c].op = "encode" /\ call[c].pc = "encode"
    /\ \E i \in 1..Len(call[c].tasks) : call[c].tasks[i].pc = "rejected"
    /\ call' = [call EXCEPT ![c].pc = "thrown",
                            ![c].result = Thrown("thrown by the caller's function")]
    /\ UNCHANGED <<paramBinders, psets, models, rt, made, added>>

\* ------------------------------------------------------------ specification
\* models a caller passes to decode
DecodeModels == {[a |-> "1", b |-> Undefined], [a |-> Undefined, b |-> "1"]}

Step(c) ==
    \/ AbsentDefault(c)
    \/ AbsentSet(c)
    \/ DecodeStartPresent(c)
    \/ PresentValidate(c)
    \/ PresentParse(c)
    \/ DecodeAfterPresent(c)
    \/ ConsistencyCheck(c)
    \/ DecodeAfterConsistency(c)
    \/ ResetDefault(c)
    \/ ResetSet(c)
    \/ DecodeAfterReset(c)
    \/ EncodeRead(c)
    \/ EncodeDefault(c)
    \/ EncodeSet(c)
    \/ EncodeReturn(c)

\* any one call of decode or encode, on any registry
Next ==
    \/ \E pb \in BinderPool : Register(pb)
    \/ \E c \in Solo, p \in ParamSets : DecodeCall(c, "p1", p, NoRef, EmptyModel)
    \/ \E c \in Solo, p \in ParamSets, m \in DecodeModels : DecodeCall(c, "p1", p, "m1", m)
    \/ \E c \in Solo : DecodeCallNoParams(c)
    \/ \E c \in Solo, m \in Models : EncodeCall(c, "m1", m, NoRef, <<>>)
    \/ \E c \in Solo, m \in Models, p \in StartSets : EncodeCall(c, "m1", m, "p1", p)
    \/ \E c \in Solo : EncodeCallNoModel(c)
    \/ \E c \in Solo : Step(c)

Spec == Init /\ [][Next]_vars

\* ------------------------------------------------------- round-trip script
\* A caller that decodes a parameter set, encodes the model it got (with no
\* starting set) and decodes what encode returned (with no model).
RTDecode(c) ==
    /\ rt.stage = "off"
    /\ call[c].op = "idle"
    /\ \E p \in ParamSets :
        \/ DecodeStart(c, "p1", p, NoRef, EmptyModel)
        \/ \E m \in DecodeModels : DecodeStart(c, "p1", p, "m1", m)
    /\ rt' = [rt EXCEPT !.stage = "decode"]

RTEncode(c) ==
    /\ rt.stage = "decode"
    /\ call[c].op = "decode" /\ call[c].pc = "returned"
    /\ "model" \in DOMAIN call[c].result
    /\ EncodeStart(c, "m1", call[c].result.model, NoRef, <<>>)
    /\ rt' = [stage |-> "encode", first |-> call[c].result.model]

RTDecodeAgain(c) ==
    /\ rt.stage = "encode"
    /\ call[c].op = "encode" /\ call[c].pc = "returned"
    /\ DecodeStart(c, "p1", call[c].result.urlParams, NoRef, EmptyModel)
    /\ rt' = [rt EXCEPT !.stage = "again"]

NextRT ==
    \/ \E pb \in BinderPool : Register(pb)
    \/ \E c \in Solo : RTDecode(c)
    \/ \E c \in Solo : RTEncode(c)
    \/ \E c \in Solo : RTDecodeAgain(c)
    \/ \E c \in Solo : Step(c)

SpecRT == Init /\ [][NextRT]_vars

\* ------------------------------------------------ caller functions that throw
\* Binders whose default supplier, validity predicate, accessors or
\* consistency predicate throw, next to binders whose functions return.
ThrowBase ==
    { Binder("a", FALSE, NoKey, "0", {"1"}, NoKey, "lt"),
      Binder("b", FALSE, NoKey, "1", Values, NoKey, "undefined") }
ThrowPool ==
    ThrowBase
    \cup {Throwing(pb, f) : pb \in {pb \in ThrowBase : pb.urlParamName = "a"},
                            f \in {"default", "valid", "write"}}
    \cup {Throwing(pb, f) : pb \in {pb \in ThrowBase : pb.urlParamName = "b"},
                            f \in {"default", "read", "write", "cons"}}

StepThrow(c) ==
    \/ Step(c)
    \/ DecodeRejected(c)
    \/ EncodeRejected(c)

NextThrow ==
    \/ \E pb \in ThrowPool : Register(pb)
    \/ \E c \in Solo, p \in ShortSets : DecodeCall(c, "p1", p, NoRef, EmptyModel)
    \/ \E c \in Solo, m \in Models : EncodeCall(c, "m1", m, NoRef, <<>>)
    \/ \E c \in Solo : StepThrow(c)

SpecThrow == Init /\ [][NextThrow]_vars

\* every function of the caller that a call awaits settles: each step of a
\* call that can be taken is taken
SpecLive == SpecThrow /\ \A c \in Solo : WF_vars(StepThrow(c))

\* ------------------------------------------------------- two calls in flight
\* A caller that makes a second call while the first is in flight (or after
\* it): a second decode, of another parameter set object or of the same one,
\* with the same model object,
\* an encode of that model object that is given the parameter set object of
\* the running decode as its starting set, or a second encode of the same
\* model object.
CCPool ==
    { Binder("a", FALSE, NoKey, "0", {"0"}, NoKey, "lt"),
      Binder("b", TRUE, "a", "0", Values, NoKey, "undefined") }

\* the model object the first decode is given
FirstModel == [a |-> "1", b |-> Undefined]

SecondDecode(c, first) ==
    /\ call[first].op = "decode"
    /\ \/ \E p \in ShortSets :
            DecodeCall(c, "p2", p, call[first].modelRef, models[call[first].modelRef])
       \/ DecodeCall(c, call[first].urlParams, psets[call[first].urlParams],
                     call[first].modelRef, models[call[first].modelRef])

SecondEncodeInto(c, first) ==
    /\ call[first].op = "decode"
    /\ EncodeCall(c, call[first].modelRef, models[call[first].modelRef],
                  call[first].urlParams, psets[call[first].urlParams])

SecondEncode(c, first) ==
    /\ call[first].op = "encode"
    /\ EncodeCall(c, call[first].modelRef, models[call[first].modelRef], NoRef, <<>>)

StepCC(c) ==
    \/ Step(c)
    \/ PresentParseDefault(c)

NextCC ==
    \/ \E pb \in CCPool : Register(pb)
    \/ \E p \in ShortSets : DecodeCall("c1", "p1", p, "m1", FirstModel)
    \/ \E m \in Models : EncodeCall("c1", "m1", m, NoRef, <<>>)
    \/ SecondDecode("c2", "c1")
    \/ SecondEncodeInto("c2", "c1")
    \/ SecondEncode("c2", "c1")
    \/ \E c \in Calls : StepCC(c)

SpecCC == Init /\ [][NextCC]_vars

\* ------------------------------------------------------------ registration
\* Any sequence of addParamBinder calls, with binders, binders of a name
\* already taken, and objects that are no ParamBinder.
NextReg ==
    \/ \E pb \in BinderPool : addParamBinder(Instance(pb))
    \/ \E pb \in BinderPool : addParamBinder(LookAlike(pb))

SpecReg == Init /\ [][NextReg]_vars

\* ------------------------------------------------------------ construction
\* new ParamBinder(params) for any params, then isModelConsistent(model) on
\* the instance, if there is one.
NewParamBinder(params) ==
    /\ made = NotMade
    /\ made' = [params |-> params, out |-> ParamBinder(params)]
    /\ UNCHANGED <<paramBinders, psets, models, call, rt, added>>

MadeIsModelConsistent(m) ==
    /\ "out" \in DOMAIN made
    /\ "instance" \in DOMAIN made.out
    /\ "checked" \notin DOMAIN made
    /\ made' = [params |-> made.params, out |-> made.out,
                checked |-> [model |-> m, result |-> isModelConsistent(made.out.instance, m)]]
    /\ UNCHANGED <<paramBinders, psets, models, call, rt, added>>

NextCtor ==
    \/ \E params \in CtorParams : NewParamBinder(params)
    \/ \E m \in Models : MadeIsModelConsistent(m)

SpecCtor == Init /\ [][NextCtor]_vars

\* ------------------------------------------------------------------ claims
\* What a call was asked, read off the registry and the arguments as they
\* were at the call.
IsDecode(c) == call[c].op = "decode" /\ call[c].pc # "thrown"
IsDecodeDone(c) == call[c].op = "decode" /\ call[c].pc = "returned"
IsEncodeDone(c) == call[c].op = "encode" /\ call[c].pc = "returned"
InP(c) == call[c].inParams[1]
Base(c) == IF call[c].inModel = <<>> THEN EmptyModel ELSE call[c].inModel[1]
Registered(k) == \E i \in 1..Len(paramBinders) : paramBinders[i].urlParamName = k
BinderNamed(k) == paramBinders[CHOOSE i \in 1..Len(paramBinders) : paramBinders[i].urlParamName = k]

\* the registered keys of p whose value fails its binder's validity check
RefInvalidKeys(p) ==
    {k \in Keys : Has(p, k) /\ Registered(k)
                  /\ ~ isUrlParamValid(BinderNamed(k), Get(p, k), <<p>>)}
\* p without its invalid registered keys
RefKept(p) == SelectSeq(p, LAMBDA e : e[1] \notin RefInvalidKeys(p))
\* the model assembled from p: the value of a present name, the default of an
\* absent one, and the fields no binder writes as the caller's model had them
RefModel(p, base) ==
    [n \in Names |->
        IF Registered(n)
        THEN IF Has(p, n) THEN Get(p, n) ELSE getDefaultParamValue(BinderNamed(n), <<p>>)
        ELSE base[n]]
RefConsistent(p, base) ==
    \A i \in 1..Len(paramBinders) : isModelConsistent(paramBinders[i], RefModel(p, base))

\* C1: every result of decode has exactly one of the fields model and
\* newParams, whatever the registry, the input and the order in which the
\* per-key work completes.
C1_ExactlyOneField ==
    \A c \in Calls :
        IsDecodeDone(c) => DOMAIN call[c].result \in {{"model"}, {"newParams"}}

C1_Witness ==
    \E c \in Calls :
        /\ IsDecodeDone(c)
        /\ Len(paramBinders) = 2
        /\ ~ call[c].hasErrors
        /\ "newParams" \in DOMAIN call[c].result

\* C2: when some present key has a binder whose validity check fails, decode
\* returns only newParams, and it is the input without exactly the invalid
\* registered keys (valid registered keys and keys with no binder stay, with
\* their values).
C2_InvalidKeysRemoved ==
    \A c \in Calls :
        (IsDecodeDone(c) /\ RefInvalidKeys(InP(c)) # {})
            => call[c].result = [newParams |-> RefKept(InP(c))]

C2_Witness ==
    \E c \in Calls :
        /\ IsDecodeDone(c)
        /\ RefInvalidKeys(InP(c)) # {}
        /\ Len(InP(c)) = 2
        /\ "newParams" \in DOMAIN call[c].result
        /\ Len(call[c].result.newParams) = 1

\* C3: when every present registered key is valid and some binder's
\* consistency check on the assembled model is false, decode returns only
\* newParams, in which every registered name maps to its binder's default
\* computed against the input parameter set.
C3_ConsistencyReset ==
    \A c \in Calls :
        (/\ IsDecodeDone(c)
         /\ RefInvalidKeys(InP(c)) = {}
         /\ ~ RefConsistent(InP(c), Base(c)))
            => /\ DOMAIN call[c].result = {"newParams"}
               /\ \A i \in 1..Len(paramBinders) :
                    Get(call[c].result.newParams, paramBinders[i].urlParamName)
                        = getDefaultParamValue(paramBinders[i], <<InP(c)>>)

C3_Witness ==
    \E c \in Calls :
        /\ IsDecodeDone(c)
        /\ RefInvalidKeys(InP(c)) = {}
        /\ ~ RefConsistent(InP(c), Base(c))
        /\ \E i \in 1..Len(paramBinders) :
            /\ paramBinders[i].defaultParamValue.fn
            /\ Has(InP(c), paramBinders[i].defaultParamValue.key)
            /\ "newParams" \in DOMAIN call[c].result
            /\ Get(call[c].result.newParams, paramBinders[i].urlParamName)
                    # paramBinders[i].defaultParamValue.val

\* C4: when every present registered key is valid and every consistency check
\* passes, decode returns a model in which each binder's field holds the
\* input's value for a present name and the binder's default (against the
\* input) for an absent one; absence alone never gives newParams.
C4_ModelAssembled ==
    \A c \in Calls :
        (/\ IsDecodeDone(c)
         /\ RefInvalidKeys(InP(c)) = {}
         /\ RefConsistent(InP(c), Base(c)))
            => call[c].result = [model |-> RefModel(InP(c), Base(c))]

C4_Witness ==
    \E c \in Calls :
        /\ IsDecodeDone(c)
        /\ "model" \in DOMAIN call[c].result
        /\ Len(paramBinders) = 2
        /\ \E n \in Names : Has(InP(c), n)
        /\ \E n \in Names : ~ Has(InP(c), n)

\* whether a caller's function of binder pb reads key k of allParams
ReadsKey(pb, k) ==
    \/ pb.defaultParamValue.fn /\ pb.defaultParamValue.key = k
    \/ pb.isUrlParamValueValidFunc.needs = k
Removed(p, k) == SelectSeq(p, LAMBDA e : e[1] # k)
RefKind(p, base) ==
    IF RefInvalidKeys(p) # {} \/ ~ RefConsistent(p, base) THEN "newParams" ELSE "model"
\* the result is the one decode gives for parameter set p
SameOutcomeAs(c, p) ==
    /\ DOMAIN call[c].result = {RefKind(p, Base(c))}
    /\ "model" \in DOMAIN call[c].result => call[c].result.model = RefModel(p, Base(c))

\* the error flag is set only by an invalid registered key, and the task of a
\* key with no binder ends at once, with no validator or write accessor called
UnknownKeysSkipped(c) ==
    /\ call[c].hasErrors => RefInvalidKeys(InP(c)) # {}
    /\ call[c].pc = "present" =>
            \A i \in 1..Len(call[c].tasks) :
                ~ Registered(call[c].tasks[i].key) =>
                    call[c].tasks[i].pc = "done" /\ call[c].tasks[i].pb = 0

\* C5 as stated: a key with no registered binder is ignored by decode: it sets
\* no error flag, no validator or write accessor runs for it, and the outcome
\* (model or newParams, and the model) is that of the input without the key.
C5_UnknownKeyIgnored ==
    \A c \in Calls :
        IsDecode(c) =>
            /\ UnknownKeysSkipped(c)
            /\ IsDecodeDone(c) =>
                \A k \in Keys :
                    (Has(InP(c), k) /\ ~ Registered(k)) => SameOutcomeAs(c, Removed(InP(c), k))

\* C5 amended: the same, for a key that no binder's default supplier or
\* validity predicate reads from the parameter set.
C5_UnknownUnreadKeyIgnored ==
    \A c \in Calls :
        IsDecode(c) =>
            /\ UnknownKeysSkipped(c)
            /\ IsDecodeDone(c) =>
                \A k \in Keys :
                    (/\ Has(InP(c), k)
                     /\ ~ Registered(k)
                     /\ \A i \in 1..Len(paramBinders) : ~ ReadsKey(paramBinders[i], k))
                        => SameOutcomeAs(c, Removed(InP(c), k))

C5_Witness ==
    \E c \in Calls :
        /\ IsDecodeDone(c)
        /\ Len(paramBinders) = 2
        /\ Has(InP(c), "z")
        /\ \A i \in 1..Len(paramBinders) : ~ ReadsKey(paramBinders[i], "z")
        /\ \E n \in Names : Has(InP(c), n)
        /\ "model" \in DOMAIN call[c].result

\* C6: encode never changes the parameter set object the caller passed as the
\* starting set: when encode has returned, that object holds what it held at
\* the call.
C6_EncodeLeavesCallerParams ==
    \A c \in Calls :
        (IsEncodeDone(c) /\ call[c].urlParams # NoRef)
            => psets[call[c].urlParams] = InP(c)

\* C7: decode never changes the caller's model or parameter set: at every
\* point of the call both objects hold what they held at the call, and the
\* model and newParams that decode writes are objects of its own.
C7_DecodeLeavesCallerObjects ==
    \A c \in Calls :
        IsDecode(c) =>
            /\ psets[call[c].urlParams] = InP(c)
            /\ call[c].modelRef # NoRef => models[call[c].modelRef] = call[c].inModel[1]
            /\ call[c].modelAt = Own
            /\ call[c].newParamsAt = Own

C7_Witness ==
    \E c \in Calls :
        /\ IsDecodeDone(c)
        /\ call[c].modelRef # NoRef
        /\ call[c].model # call[c].inModel[1]
        /\ "newParams" \in DOMAIN call[c].result
        /\ call[c].result.newParams # InP(c)

\* C8: after encode, for every binder: a read value that differs from the
\* default sits in the output under the binder's name, and otherwise the
\* output does not have the binder's name.
C8_EncodeOutput ==
    \A c \in Calls :
        IsEncodeDone(c) =>
            \A i \in 1..Len(call[c].tasks) :
                LET t == call[c].tasks[i]
                    out == call[c].result.urlParams
                IN  /\ t.v # t.d => Get(out, t.key) = t.v
                    /\ t.v = t.d => ~ Has(out, t.key)

\* the starting set of an encode call: empty when the caller passed none
StartOf(c) == IF call[c].inParams = <<>> THEN <<>> ELSE call[c].inParams[1]
\* every field, as its binder reads it, equals the binder's default
AllDefault(c) ==
    \A i \in 1..Len(paramBinders) :
        getUrlParamValue(paramBinders[i], call[c].inModel[1])
            = getDefaultParamValue(paramBinders[i], <<StartOf(c)>>)

\* C9 as stated: encoding a model whose every field equals its binder's
\* default yields an empty parameter set.
C9_AllDefaultGivesEmpty ==
    \A c \in Calls :
        (IsEncodeDone(c) /\ AllDefault(c)) => call[c].result.urlParams = <<>>

\* C9 amended: encoding such a model with no starting set, or with an empty
\* one, yields an empty parameter set.
C9_AllDefaultNoStartGivesEmpty ==
    \A c \in Calls :
        (IsEncodeDone(c) /\ AllDefault(c) /\ StartOf(c) = <<>>)
            => call[c].result.urlParams = <<>>

C9_Witness ==
    \E c \in Calls :
        /\ IsEncodeDone(c)
        /\ AllDefault(c)
        /\ Len(paramBinders) = 2
        /\ call[c].inParams = <<>>
        /\ \A n \in Names : call[c].inModel[1][n] # Undefined
        /\ call[c].result.urlParams = <<>>

\* the fields of two models that the registered binders read are equal
SameReadableFields(m1, m2) ==
    \A i \in 1..Len(paramBinders) :
        getUrlParamValue(paramBinders[i], m1) = getUrlParamValue(paramBinders[i], m2)

\* every default is a constant, every validity predicate looks at the value
\* alone, and a consistency predicate reads only fields that binders write
PlainRegistry ==
    \A i \in 1..Len(paramBinders) :
        /\ ~ paramBinders[i].defaultParamValue.fn
        /\ paramBinders[i].isUrlParamValueValidFunc.needs = NoKey
        /\ paramBinders[i].isModelConsistentFunc = "lt" => Registered("a") /\ Registered("b")

\* C10 as stated: a model M that decode returned, encoded and decoded again
\* with the same binders, gives a model (not newParams) with the same
\* binder-readable fields as M, also for defaults that depend on the
\* parameter set.
C10_RoundTrip ==
    \A c \in Calls :
        (rt.stage = "again" /\ IsDecodeDone(c))
            => /\ DOMAIN call[c].result = {"model"}
               /\ SameReadableFields(call[c].result.model, rt.first)

\* C10 amended: the round trip holds when every default is a constant string,
\* every validity predicate depends on the value alone and every consistency
\* predicate reads only fields that registered binders write.
C10_RoundTripPlain ==
    \A c \in Calls :
        (rt.stage = "again" /\ IsDecodeDone(c) /\ PlainRegistry)
            => /\ DOMAIN call[c].result = {"model"}
               /\ SameReadableFields(call[c].result.model, rt.first)

C10_Witness ==
    \E c \in Calls :
        /\ rt.stage = "again"
        /\ IsDecodeDone(c)
        /\ PlainRegistry
        /\ Len(paramBinders) = 2
        /\ Len(InP(c)) = 1
        /\ "model" \in DOMAIN call[c].result
        /\ call[c].result.model = rt.first

\* the names of the registry are pairwise distinct
DistinctNames ==
    \A i, j \in 1..Len(paramBinders) :
        i # j => paramBinders[i].urlParamName # paramBinders[j].urlParamName

\* C11: after any sequence of addParamBinder calls the registry holds binders
\* of pairwise distinct names, in the order they were registered: a call with
\* a ParamBinder of a new name appends it and returns, and a call with a name
\* already registered, or with something that is no ParamBinder, throws and
\* leaves the registry as it was.
C11_RegistryDistinctInOrder ==
    /\ []DistinctNames
    /\ [][added' # added =>
            IF added'.arg.instanceOf = "ParamBinder" /\ ~ Registered(added'.arg.binder.urlParamName)
            THEN /\ paramBinders' = Append(paramBinders, added'.arg.binder)
                 /\ "error" \notin DOMAIN added'
            ELSE /\ paramBinders' = paramBinders
                 /\ "error" \in DOMAIN added']_vars

C11_Witness ==
    /\ Len(paramBinders) = 2
    /\ paramBinders[1].urlParamName = "b"
    /\ "error" \in DOMAIN added
    /\ added.arg.instanceOf = "ParamBinder"
    /\ added.arg.binder.urlParamName = "b"
    /\ added.arg.binder # paramBinders[1]

\* C12: an exception thrown by a function of the caller during decode or
\* encode makes that call fail: a call that returned a result is one in which
\* none of the caller's functions threw, the write accessor of a present,
\* valid key included.
C12_ThrownPropagates ==
    \A c \in Calls : call[c].pc = "returned" => call[c].threw = {}

\* the entries of one name, in their order
EntriesOf(p, k) == SelectSeq(p, LAMBDA e : e[1] = k)
\* two parameter sets hold the same entries under every name
SameEntries(p, q) == \A k \in Keys : EntriesOf(p, k) = EntriesOf(q, k)

\* q after the first n binders' names were set to their defaults against p
RECURSIVE RefResetUpTo(_, _, _)
RefResetUpTo(q, p, n) ==
    IF n = 0 THEN q
    ELSE Set(RefResetUpTo(q, p, n - 1), paramBinders[n].urlParamName,
             getDefaultParamValue(paramBinders[n], <<p>>))
\* p with every registered name set to its default against p, in registry order
RefReset(p) == RefResetUpTo(p, p, Len(paramBinders))

\* the result of call c is the one decode gives, run alone, for the parameter
\* set and the model that c was given
IsResultAlone(c) ==
    LET p == InP(c)
        base == Base(c)
    IN  IF RefInvalidKeys(p) # {}
        THEN call[c].result = [newParams |-> RefKept(p)]
        ELSE IF ~ RefConsistent(p, base)
        THEN /\ DOMAIN call[c].result = {"newParams"}
             /\ SameEntries(call[c].result.newParams, RefReset(p))
        ELSE call[c].result = [model |-> RefModel(p, base)]

\* C13: two decode calls in flight at once on one ModelBinder, given the same
\* model object, each return what they would return alone: no write of one
\* call to its model or its newParams shows in the other's result.
C13_ConcurrentDecodesIsolated ==
    \A c \in Calls :
        (IsDecodeDone(c) /\ \A o \in Calls : call[o].op # "encode") => IsResultAlone(c)

C13_Witness ==
    /\ call["c1"].op = "decode" /\ call["c1"].pc = "consistency"
    /\ IsDecodeDone("c2")
    /\ call["c1"].modelRef = "m1" /\ call["c2"].modelRef = "m1"
    /\ Len(paramBinders) = 2
    /\ "model" \in DOMAIN call["c2"].result
    /\ call["c2"].result.model # call["c1"].model
    /\ call["c2"].result.model # models["m1"]

\* C14: while any consistency check of a decode call is invoked or pending
\* (and in the reset that follows a failed one), every absent name's default
\* and every present key's value has been assigned to the model, and no
\* present key of the call failed validation: a call with an invalid key
\* never gets to the consistency checks.
C14_ConsistencyAfterAllKeys ==
    \A c \in Calls :
        (call[c].op = "decode" /\ call[c].pc \in {"consistency", "reset"})
            => /\ ~ call[c].hasErrors
               /\ RefInvalidKeys(InP(c)) = {}
               /\ CurModel(c) = RefModel(InP(c), Base(c))

C14_Witness ==
    \E c \in Calls :
        /\ call[c].op = "decode" /\ call[c].pc = "consistency"
        /\ Len(paramBinders) = 2
        /\ \E n \in Names : Has(InP(c), n)
        /\ \E n \in Names : ~ Has(InP(c), n)
        /\ \E i \in 1..Len(call[c].tasks) :
            call[c].tasks[i].pc = "done" /\ ~ call[c].tasks[i].ok

\* the result of call c is exactly the one result that its parameter set, its
\* model and the registry determine
IsTheResult(c) ==
    LET p == InP(c)
        base == Base(c)
    IN  IF RefInvalidKeys(p) # {}
        THEN call[c].result = [newParams |-> RefKept(p)]
        ELSE IF ~ RefConsistent(p, base)
        THEN call[c].result = [newParams |-> RefReset(p)]
        ELSE call[c].result = [model |-> RefModel(p, base)]

\* C15: the result of decode does not depend on the order in which the
\* per-key computations complete: every interleaving gives the same kind of
\* result with the same model or the same newParams.
C15_OrderIndependent ==
    \A c \in Calls : IsDecodeDone(c) => IsTheResult(c)

\* binder B's default supplier reads the name of another registered binder A,
\* and A's value is in the output p
ReadsSetSibling(p) ==
    \E i, j \in 1..Len(paramBinders) :
        /\ i # j
        /\ paramBinders[i].defaultParamValue.fn
        /\ paramBinders[i].defaultParamValue.key = paramBinders[j].urlParamName
        /\ Has(p, paramBinders[j].urlParamName)

\* two encode calls of the same model, neither given a starting set, have
\* both returned
TwoEncodesDone ==
    /\ IsEncodeDone("c1") /\ IsEncodeDone("c2")
    /\ call["c1"].inModel = call["c2"].inModel
    /\ call["c1"].urlParams = NoRef /\ call["c2"].urlParams = NoRef

\* C16: in encode each binder's default is computed against the output
\* parameter set as it is when the supplier runs, whatever the other binders
\* have or have not yet written to it; two encodes of one model give outputs
\* with different entries only through a default supplier that reads the name of
\* a sibling binder whose value is emitted, seen absent in one completion
\* order and set in the other.
C16_EncodeDefaultsUnsynchronised ==
    /\ [][\A c \in Calls : \A i \in 1..Len(call[c].tasks) :
            (/\ call[c].op = "encode"
             /\ call[c].tasks[i].pc = "default"
             /\ call'[c].tasks[i].pc = "set")
                => call'[c].tasks[i].d
                     = getDefaultParamValue(paramBinders[call[c].tasks[i].pb], <<CurParams(c)>>)]_vars
    /\ [](TwoEncodesDone
             /\ ~ SameEntries(call["c1"].result.urlParams, call["c2"].result.urlParams)
            => ReadsSetSibling(call["c1"].result.urlParams))

C16_Witness ==
    /\ TwoEncodesDone
    /\ ~ SameEntries(call["c1"].result.urlParams, call["c2"].result.urlParams)
    /\ ReadsSetSibling(call["c1"].result.urlParams)
    /\ \E i \in 1..Len(call["c1"].tasks) :
        /\ call["c1"].tasks[i].v = call["c2"].tasks[i].v
        /\ call["c1"].tasks[i].d # call["c2"].tasks[i].d

\* call c has come to its end: it returned a result of its kind, or it threw
HasEnded(c) ==
    \/ /\ call[c].pc = "returned"
       /\ IF call[c].op = "decode"
          THEN DOMAIN call[c].result \in {{"model"}, {"newParams"}}
          ELSE DOMAIN call[c].result = {"urlParams"}
    \/ /\ call[c].pc = "thrown"
       /\ DOMAIN call[c].result = {"error"}

\* C17: when every function of the caller that a call awaits settles, every
\* decode call and every encode call comes to its end: it returns its result
\* or it fails with an error, and none waits for ever.
C17_EveryCallEnds ==
    \A c \in Solo : (call[c].op # "idle") ~> HasEnded(c)

C17_Witness ==
    \E c \in Solo :
        /\ HasEnded(c)
        /\ call[c].op = "decode" /\ call[c].pc = "thrown"
        /\ Len(paramBinders) = 2
        /\ <<"b", "cons">> \in call[c].threw

\* what the constructor requires of its parameters: a non-empty string name,
\* a default that is a string or callable, and callable write accessor,
\* validity predicate and read accessor
Callable(x) == x.t = "function"
WellFormed(params) ==
    /\ params.urlParamName.t = "string" /\ params.urlParamName.v # ""
    /\ params.defaultParamValue.t = "string" \/ Callable(params.defaultParamValue)
    /\ Callable(params.setValueToModel)
    /\ Callable(params.isUrlParamValueValid)
    /\ Callable(params.getUrlParamValue)

\* C18: new ParamBinder(params) gives a binder exactly when the name is a
\* non-empty string, the default a string or callable and the write accessor,
\* validity predicate and read accessor callable, and throws otherwise (no
\* binder then); a missing or non-callable consistency predicate never makes
\* it throw, and the binder made without one is consistent for every model.
C18_ConstructionChecks ==
    "out" \in DOMAIN made =>
        /\ WellFormed(made.params) => DOMAIN made.out = {"instance"}
        /\ ~ WellFormed(made.params) => DOMAIN made.out = {"error"}
        /\ ("instance" \in DOMAIN made.out /\ ~ Callable(made.params.isModelConsistent))
            => /\ \A m \in Models : isModelConsistent(made.out.instance, m)
               /\ "checked" \in DOMAIN made => made.checked.result
        /\ "instance" \in DOMAIN made.out
            => made.out.instance.urlParamName = made.params.urlParamName.v

C18_Witness ==
    /\ "checked" \in DOMAIN made
    /\ made.params.isModelConsistent.t = "string"
    /\ made.params.defaultParamValue.t = "function"
    /\ made.checked.model = [a |-> "1", b |-> "0"]
    /\ made.checked.result

\* C19: getUrlParamValue gives the binder's default computed with no
\* parameter set when the read accessor yields nothing, and else the string
\* form of what it yields; so in encode a field that yields nothing is
\* compared with the default computed against the parameter set in progress,
\* and is emitted (with the context-free default as its value) whenever the
\* two defaults differ.
C19_ReadFallsBackToContextFreeDefault ==
    \A c \in Calls :
        call[c].op = "encode" =>
            \A i \in 1..Len(call[c].tasks) :
                LET t == call[c].tasks[i]
                    pb == paramBinders[t.pb]
                    raw == getUrlParamValueFunc(pb, call[c].inModel[1])
                    free == getDefaultParamValue(pb, <<>>)
                IN  /\ t.pc \in {"default", "set", "done"}
                        => t.v = IF raw = Undefined THEN free ELSE toString(raw)
                    /\ (t.pc = "done" /\ raw = Undefined /\ ~ Registered(pb.defaultParamValue.key))
                        => t.d = getDefaultParamValue(pb, <<StartOf(c)>>)
                    /\ (IsEncodeDone(c) /\ raw = Undefined /\ t.d # free)
                        => Get(call[c].result.urlParams, t.key) = free

C19_Witness ==
    \E c \in Calls :
        /\ IsEncodeDone(c)
        /\ call[c].inModel[1] = [a |-> One, b |-> Undefined]
        /\ \E i \in 1..Len(call[c].tasks) :
            /\ call[c].tasks[i].key = "b"
            /\ call[c].tasks[i].d # getDefaultParamValue(paramBinders[i], <<>>)
            /\ Get(call[c].result.urlParams, "b") = "0"
        /\ Get(call[c].result.urlParams, "a") = "1"

\* C20: the outcome of a decode call depends only on the contents its
\* parameter set had when it was called: whatever another call (an encode
\* writing into the same parameter set object) does meanwhile, the call
\* returns what decode gives, run alone, for those contents.
C20_DecodeUsesCallTimeContents ==
    \A c \in Calls : IsDecodeDone(c) => IsResultAlone(c)

====
